---- MODULE Spec2Model ----
(***************************************************************************)
(* A model of RecycleBinDumper.cpp: the row buffer (CharBuffer), the       *)
(* decoder of $I index files (PrintRecycleInfo), the enumeration of a      *)
(* recycle bin (wmain, ForeachFile, PrintRecycledFileInfo) and the walk of *)
(* a deleted folder (PrintFolder, PrintFileOrFolder).                      *)
(*                                                                         *)
(* Text is a sequence of wchar_t codes; a C string is the text before the  *)
(* first 0. An index file is its sequence of bytes. stdout is the sequence *)
(* "out" of the lines printed, each tagged with the call that printed it.  *)
(***************************************************************************)
EXTENDS Integers, Sequences, FiniteSets, TLC

(* ------------------------------------------------------------------ *)
(* Characters and program constants                                   *)
(* ------------------------------------------------------------------ *)

\* L'\0'
NUL == 0
\* L','
COMMA == 44
\* L'.'
DOT == 46
\* L'\\'
BSLASH == 92
\* L'*'
STAR == 42
\* L'$'
DOLLAR == 36
\* L'I'
CH_I == 73
\* L'R'
CH_R == 82
\* L'-', L':', L' ', L'0'
DASH == 45
COLON == 58
SPACE == 32
ZERO == 48

\* windows.h: MAX_PATH
MAX_PATH == 260
\* new CharBuffer(2 * 1024)
LineBufferSize == 2048
\* fileNameSize = 520 / sizeof(wchar_t)
V1NameUnits == 260
\* sizeof(wchar_t) on Windows
WCharBytes == 2

\* 2^16: half the range of a uint32_t index (uint32_t fileNameSize)
HalfWord == 65536

\* wchar_t header[]: the twelve column titles, each followed by a comma.
\* Only the commas matter here: a title is modelled by its column number.
HeaderColumns == 12

\* The text of the header line: column k is the letter 'A'+k-1 followed by ','.
header == [i \in 1..(2 * HeaderColumns) |-> IF i % 2 = 0 THEN COMMA ELSE 64 + (i + 1) \div 2]

(* ------------------------------------------------------------------ *)
(* Strings and formatting (what vswprintf_s does with %s, %d, %lld)   *)
(* ------------------------------------------------------------------ *)

Min(a, b) == IF a < b THEN a ELSE b

\* Index of the first NUL of s, or Len(s)+1 when s holds none.
FirstNul(s) ==
    LET nuls == {i \in 1..Len(s) : s[i] = NUL}
    IN  IF nuls = {} THEN Len(s) + 1 ELSE CHOOSE i \in nuls : \A j \in nuls : i <= j

\* %s: the characters of a wchar_t array before its first L'\0'.
CStr(s) == SubSeq(s, 1, FirstNul(s) - 1)

\* %d / %lld of a non-negative number: its decimal digits.
RECURSIVE Dec(_)
Dec(n) == IF n < 10 THEN <<ZERO + n>> ELSE Dec(n \div 10) \o <<ZERO + (n % 10)>>

\* %02d
Dec02(n) == IF n < 10 THEN <<ZERO, ZERO + n>> ELSE Dec(n)

\* %4d
Dec4(n) == [i \in 1..(4 - Min(4, Len(Dec(n)))) |-> SPACE] \o Dec(n)

\* The positions of the commas of a line.
Commas(s) == {i \in 1..Len(s) : s[i] = COMMA}

\* Number of fields of a line: the number of commas in it.
CountCommas(s) == Cardinality(Commas(s))

\* Position of the k-th comma of s (0 when k <= 0; Len(s)+1 when there is none).
CommaAt(s, k) ==
    LET cs == Commas(s)
    IN  IF k <= 0 THEN 0
        ELSE IF k > Cardinality(cs) THEN Len(s) + 1
        ELSE CHOOSE i \in cs : Cardinality({j \in cs : j <= i}) = k

\* The k-th comma-terminated field of a line (without its comma).
Field(s, k) == SubSeq(s, CommaAt(s, k - 1) + 1, CommaAt(s, k) - 1)

\* The first k fields of a line, commas included.
FirstFields(s, k) == SubSeq(s, 1, Min(Len(s), CommaAt(s, k)))

(* ------------------------------------------------------------------ *)
(* CharBuffer                                                          *)
(* ------------------------------------------------------------------ *)

\* CharBuffer(size): position 0. "buffer" holds the text up to the terminating
\* L'\0' that the last write left (nothing is written yet: empty here).
\* "alive" is not a field of the class: it is FALSE once a write has ended the
\* process, and every later operation of the run is then skipped.
NewCharBuffer(size) == [buffer |-> <<>>, size |-> size, position |-> 0, alive |-> TRUE]

\* A variant of PrintF with the bound not checked (vswprintf in place of
\* vswprintf_s): the text is written whatever room is left.
PrintFUnchecked(lb, text) ==
    IF ~lb.alive THEN lb
    ELSE [lb EXCEPT !.buffer = SubSeq(lb.buffer, 1, lb.position) \o text,
                    !.position = lb.position + Len(text)]

\* PrintF with the format already expanded to "text". vswprintf_s writes text and
\* a terminating L'\0' at buffer + position when they fit in size - position
\* characters. When they do not, it calls the invalid parameter handler; the
\* program installs none, so the CRT's default handler ends the process.
PrintF(lb, text) ==
    IF ~lb.alive THEN lb
    ELSE IF Len(text) + 1 > lb.size - lb.position THEN [lb EXCEPT !.alive = FALSE]
    ELSE [lb EXCEPT !.buffer = SubSeq(lb.buffer, 1, lb.position) \o text,
                    !.position = lb.position + Len(text)]

GetPosition(lb) == lb.position

SetPosition(lb, position) == [lb EXCEPT !.position = position]

\* PrintLine: wprintf(L"%s\n", buffer) prints the buffer up to its terminator.
PrintLine(lb) == lb.buffer

(* ------------------------------------------------------------------ *)
(* Times                                                               *)
(* ------------------------------------------------------------------ *)

\* FileTimeToSystemTime (Windows API). A FILETIME is modelled by a count of
\* seconds since 1601-01-01 00:00:00 that stays within January 1601.
FileTimeToSystemTime(ft) ==
    [wYear |-> 1601, wMonth |-> 1, wDay |-> 1 + (ft \div 86400),
     wHour |-> (ft \div 3600) % 24, wMinute |-> (ft \div 60) % 60, wSecond |-> ft % 60]

\* L"%4d-%02d-%02d %02d:%02d:%02d"
FormatTime(utc) ==
    Dec4(utc.wYear) \o <<DASH>> \o Dec02(utc.wMonth) \o <<DASH>> \o Dec02(utc.wDay)
    \o <<SPACE>> \o Dec02(utc.wHour) \o <<COLON>> \o Dec02(utc.wMinute)
    \o <<COLON>> \o Dec02(utc.wSecond)

\* The end of PrintFileTime: if (comma) PrintF(L",").
PrintComma(lb, comma) == IF comma THEN PrintF(lb, <<COMMA>>) ELSE lb

PrintFileTime(lb, ft, comma) ==
    PrintComma(PrintF(lb, FormatTime(FileTimeToSystemTime(ft))), comma)

PrintFileDetails(lb, szFileName, ftCreated, ftModified, ftAccessed) ==
    PrintFileTime(
        PrintFileTime(
            PrintFileTime(PrintF(lb, CStr(szFileName) \o <<COMMA>>), ftCreated, TRUE),
            ftModified, TRUE),
        ftAccessed, TRUE)

(* ------------------------------------------------------------------ *)
(* The index file decoder                                              *)
(* ------------------------------------------------------------------ *)

\* The little-endian value of a sequence of bytes.
RECURSIVE LE(_)
LE(bytes) == IF bytes = <<>> THEN 0 ELSE bytes[1] + 256 * LE(Tail(bytes))

\* fread(dst, size, n, f) at offset off of a file of bytes: the number of whole
\* items read.
FreadCount(bytes, off, size, n) ==
    IF off >= Len(bytes) THEN 0 ELSE Min(n, (Len(bytes) - off) \div size)

\* The bytes fread stored: those of the whole items read.
Fread(bytes, off, size, n) ==
    SubSeq(bytes, off + 1, off + size * FreadCount(bytes, off, size, n))

\* The wchar_t units held by a sequence of bytes.
Units(bytes) == [k \in 1..(Len(bytes) \div WCharBytes) |->
                    LE(SubSeq(bytes, WCharBytes * (k - 1) + 1, WCharBytes * k))]

\* uint32_t: a 32-bit value is kept as its two 16-bit halves, hi * 2^16 + lo,
\* so that all of its range is there.
U32(n) == [hi |-> n \div HalfWord, lo |-> n % HalfWord]

\* The uint32_t that 4 little-endian bytes hold.
U32OfBytes(b) == [hi |-> LE(SubSeq(b, 3, 4)), lo |-> LE(SubSeq(b, 1, 2))]

\* v + 1 in uint32_t arithmetic: modulo 2^32.
U32Inc(v) ==
    IF v.lo + 1 < HalfWord THEN [hi |-> v.hi, lo |-> v.lo + 1]
    ELSE [hi |-> (v.hi + 1) % HalfWord, lo |-> 0]

\* a <= b, a < b
U32LessEq(a, b) == a.hi < b.hi \/ (a.hi = b.hi /\ a.lo <= b.lo)
U32Less(a, b) == a.hi < b.hi \/ (a.hi = b.hi /\ a.lo < b.lo)

\* The number a uint32_t below 2^31 holds.
U32Value(v) == v.hi * HalfWord + v.lo

\* A variant of FileNameSize that takes a version 1 name to be one character
\* shorter.
FileNameSizeV1Short(bytes, version) ==
    IF version = 1 THEN U32(V1NameUnits - 1)
    ELSE IF FreadCount(bytes, 24, 4, 1) # 1 THEN U32(0)
    ELSE U32OfBytes(Fread(bytes, 24, 4, 1))

\* Lines 248-261: the number of characters of the name, a uint32_t.
FileNameSize(bytes, version) ==
    IF version = 1 THEN U32(V1NameUnits)
    ELSE IF FreadCount(bytes, 24, 4, 1) # 1 THEN U32(0)
    ELSE U32OfBytes(Fread(bytes, 24, 4, 1))

\* new wchar_t[fileNameSize + 1]: the number of elements allocated. The sum is
\* computed in uint32_t before it is widened to size_t.
NewWcharArray(fileNameSize) == U32Inc(fileNameSize)

\* fread(pOriginalFileName, sizeof(wchar_t), fileNameSize, pFile): the number
\* of characters read, all those the file still holds when they are fewer.
FreadNameCount(bytes, off, fileNameSize) ==
    IF U32LessEq(fileNameSize, U32(FreadCount(bytes, off, WCharBytes, Len(bytes))))
    THEN U32Value(fileNameSize)
    ELSE FreadCount(bytes, off, WCharBytes, Len(bytes))

\* A variant of NameOffset that forgets the 4 bytes of fileNameSize.
NameOffsetNoLength(version) == 24

\* Where the name starts: after the three fields, and after fileNameSize when
\* the version is not 1.
NameOffset(version) == IF version = 1 THEN 24 ELSE 28

\* What PrintRecycleInfo read when it never came to allocate the name.
NoName == [ok |-> FALSE, name |-> <<>>, new |-> FALSE, units |-> U32(0), written |-> 0]

\* Lines 265-269 with "count" what fread returned.
\*   ok       all of the name was there
\*   name     pOriginalFileName with its terminator set, when ok
\*   new      pOriginalFileName was allocated
\*   units    the number of elements allocated
\*   written  the number of leading elements of the array written to
ReadNameCount(bytes, version, fileNameSize, count) ==
    IF U32(count) = fileNameSize
    THEN [ok |-> TRUE,
          name |-> Units(Fread(bytes, NameOffset(version), WCharBytes, count)) \o <<NUL>>,
          new |-> TRUE, units |-> NewWcharArray(fileNameSize), written |-> count + 1]
    ELSE [ok |-> FALSE, name |-> <<>>,
          new |-> TRUE, units |-> NewWcharArray(fileNameSize), written |-> count]

\* Lines 263-269: the name is read.
ReadName(bytes, version, fileNameSize) ==
    IF fileNameSize = U32(0) THEN NoName
    ELSE ReadNameCount(bytes, version, fileNameSize,
                       FreadNameCount(bytes, NameOffset(version), fileNameSize))

\* The fields read once the three fixed fields were.
DecodeFields(bytes, version, fileSize, timeStamp) ==
    [fileSize |-> fileSize, timeStamp |-> timeStamp, version |-> version,
     fileNameSize |-> FileNameSize(bytes, version),
     read |-> ReadName(bytes, version, FileNameSize(bytes, version))]

\* What PrintRecycleInfo reads from an opened index file (lines 235-269):
\* "ok" tells that version, fileSize, timeStamp and the whole name were read.
DecodeIndex(bytes) ==
    IF /\ FreadCount(bytes, 0, 8, 1) = 1
       /\ FreadCount(bytes, 8, 8, 1) = 1
       /\ FreadCount(bytes, 16, 8, 1) = 1
    THEN DecodeFields(bytes, LE(Fread(bytes, 0, 8, 1)), LE(Fread(bytes, 8, 8, 1)),
                      LE(Fread(bytes, 16, 8, 1)))
    ELSE [fileSize |-> 0, timeStamp |-> 0, version |-> 0, fileNameSize |-> U32(0),
          read |-> NoName]

\* A variant of PrintDecoded that writes the size whether or not the name was
\* read.
PrintDecodedSizeAlways(lb, d) ==
    IF ~d.read.ok THEN PrintF(lb, Dec(d.fileSize) \o <<COMMA>>)
    ELSE PrintF(PrintFileTime(PrintF(lb, CStr(d.read.name) \o <<COMMA>>), d.timeStamp, TRUE),
                Dec(d.fileSize) \o <<COMMA>>)

\* Lines 271-273: the three decoded fields are written only when the whole
\* record was read.
PrintDecoded(lb, d) ==
    IF ~d.read.ok THEN lb
    ELSE PrintF(PrintFileTime(PrintF(lb, CStr(d.read.name) \o <<COMMA>>), d.timeStamp, TRUE),
                Dec(d.fileSize) \o <<COMMA>>)

\* fread stored, or line 269 set, elements beyond those allocated.
Overran(read) == read.new /\ ~U32LessEq(U32(read.written), read.units)

\* PrintRecycleInfo wrote past the end of pOriginalFileName on this file.
PrintRecycleInfoOverruns(f) ==
    f.found /\ ~f.dir /\ f.openable /\ Overran(DecodeIndex(f.bytes).read)

\* What a write past the end of the array can do (undefined behaviour): the
\* heap is damaged and the process ends in PrintRecycleInfo ("fault"), or the
\* write lands in unused memory and the run goes on ("intact").
OverrunOutcomes == {"fault", "intact"}

\* PrintRecycleInfo on the file _wfopen_s is given ("f.found", "f.openable").
PrintRecycleInfo(lb, f) ==
    IF ~(f.found /\ ~f.dir /\ f.openable) THEN lb ELSE PrintDecoded(lb, DecodeIndex(f.bytes))

(* ------------------------------------------------------------------ *)
(* The file system the program reads                                   *)
(* ------------------------------------------------------------------ *)

\* A directory entry: what WIN32_FIND_DATA / WIN32_FILE_ATTRIBUTE_DATA report of
\* it (name, FILE_ATTRIBUTE_DIRECTORY, size, the three times), and its content:
\* "kids" lists a directory in the order FindNextFile yields it, "bytes" is a
\* file's content, "openable" tells whether _wfopen_s succeeds on it.
Entry(name, dir, size, ct, mt, at, kids, bytes, openable) ==
    [found |-> TRUE, cFileName |-> name, dir |-> dir, size |-> size,
     ftCreationTime |-> ct, ftLastWriteTime |-> mt, ftLastAccessTime |-> at,
     kids |-> kids, bytes |-> bytes, openable |-> openable]

\* What a failed lookup yields (GetFileAttributesEx returns 0, _wfopen_s fails).
NotFound == [found |-> FALSE, cFileName |-> <<>>, dir |-> FALSE, size |-> 0,
             ftCreationTime |-> 0, ftLastWriteTime |-> 0, ftLastAccessTime |-> 0,
             kids |-> <<>>, bytes |-> <<>>, openable |-> FALSE]

\* The "." and ".." entries FindFirstFile yields first in a directory.
DotEntries == << Entry(<<DOT>>, TRUE, 0, 0, 0, 0, <<>>, <<>>, FALSE),
                 Entry(<<DOT, DOT>>, TRUE, 0, 0, 0, 0, <<>>, <<>>, FALSE) >>

\* The components of a path, split at its backslashes.
RECURSIVE Split(_)
Split(path) ==
    LET ps == {i \in 1..Len(path) : path[i] = BSLASH}
    IN  IF ps = {} THEN <<path>>
        ELSE LET p == CHOOSE i \in ps : \A j \in ps : i <= j
             IN  <<SubSeq(path, 1, p - 1)>> \o Split(SubSeq(path, p + 1, Len(path)))

\* The entry a list of components names below directory entry "node".
RECURSIVE Resolve(_, _)
Resolve(node, comps) ==
    IF comps = <<>> THEN node
    ELSE IF ~(node.found /\ node.dir) THEN NotFound
    ELSE IF Head(comps) = <<DOT>> THEN Resolve(node, Tail(comps))
    ELSE LET hits == {k \in 1..Len(node.kids) : node.kids[k].cFileName = Head(comps)}
         IN  IF hits = {} THEN NotFound
             ELSE Resolve(node.kids[CHOOSE k \in hits : TRUE], Tail(comps))

\* The entry a path relative to the current directory names.
Lookup(store, dir, path) ==
    Resolve(Entry(<<DOT>>, TRUE, 0, 0, 0, 0, store[dir], <<>>, FALSE), Split(path))

\* Whether a name matches a pattern that is a prefix followed by '*'.
WildMatch(name, wild) ==
    LET n == Len(wild) - 1
    IN  /\ Len(wild) > 0
        /\ wild[Len(wild)] = STAR
        /\ Len(name) >= n
        /\ SubSeq(name, 1, n) = SubSeq(wild, 1, n)

\* The entries of directory entry "where" that match "wild", "." and ".."
\* first; <<>> when "where" is no directory.
Matching(where, wild) ==
    LET Hit(e) == WildMatch(e.cFileName, wild)
    IN  IF ~(where.found /\ where.dir) THEN <<>> ELSE SelectSeq(DotEntries \o where.kids, Hit)

\* The pattern "dir\wild" in its two parts.
PatternDir(pattern, comps) == SubSeq(pattern, 1, Len(pattern) - Len(comps[Len(comps)]) - 1)
PatternWild(comps) == comps[Len(comps)]

\* FindFirstFile / FindNextFile on a pattern "dir\wild": the entries found, in
\* listing order; <<>> stands for INVALID_HANDLE_VALUE.
FindFiles(store, dir, pattern) ==
    IF Len(Split(pattern)) < 2 THEN <<>>
    ELSE Matching(Lookup(store, dir, PatternDir(pattern, Split(pattern))),
                  PatternWild(Split(pattern)))

\* GetFileAttributesEx(szFileName, ...)
GetFileAttributesEx(store, dir, szFileName) == Lookup(store, dir, CStr(szFileName))

\* The mode PrintRecycleInfo opens an index file with: L"rb".
szReadBinary == "rb"

\* The store once _wfopen_s(&pFile, szFileName, mode) has opened a file of the
\* current directory and fclose has closed it: a mode that reads changes
\* nothing, a mode that writes leaves the file empty.
OpenedStore(store, dir, szFileName, mode) ==
    IF mode = szReadBinary THEN store
    ELSE [store EXCEPT ![dir] =
             [k \in 1..Len(store[dir]) |->
                 IF store[dir][k].cFileName = CStr(szFileName) /\ ~store[dir][k].dir
                 THEN [store[dir][k] EXCEPT !.bytes = <<>>, !.size = 0]
                 ELSE store[dir][k]]]

\* A variant of PrintRecycleInfoStore that opens the index file with L"wb".
PrintRecycleInfoStoreWriting(store, dir, szFileName) ==
    OpenedStore(store, dir, szFileName, "wb")

\* The store PrintRecycleInfo leaves (lines 231 and 282): fread changes nothing.
PrintRecycleInfoStore(store, dir, szFileName) ==
    OpenedStore(store, dir, szFileName, szReadBinary)

(* ------------------------------------------------------------------ *)
(* The enumeration                                                     *)
(* ------------------------------------------------------------------ *)

\* L".", L"$I*", L"*", L"Missing"
szDot == <<DOT>>
szIndexWild == <<DOLLAR, CH_I, STAR>>
szAllWild == <<STAR>>
szMissing == <<77, 105, 115, 115, 105, 110, 103>>

\* ForeachFile from FindFirstFile on (lines 168-171): "frames" is the activation
\* to push (none when FindFirstFile fails), "alive" is FALSE when the pattern
\* did not fit its buffer.
ForeachFileFind(szRoot, fn, findPattern, initialPosition, found) ==
    [alive |-> findPattern.alive,
     frames |-> IF ~findPattern.alive \/ found = <<>> THEN <<>>
                ELSE << [szRoot |-> szRoot, fn |-> fn,
                         initialPosition |-> initialPosition, rest |-> found] >>]

\* ForeachFile up to its loop: the pattern is built in a CharBuffer(MAX_PATH),
\* the cursor of the row buffer is remembered, FindFirstFile opens the listing.
ForeachFile(szRoot, szWild, fn, lb, store, dir) ==
    ForeachFileFind(szRoot, fn,
        PrintF(NewCharBuffer(MAX_PATH), CStr(szRoot) \o <<BSLASH>> \o CStr(szWild)),
        GetPosition(lb),
        FindFiles(store, dir, CStr(szRoot) \o <<BSLASH>> \o CStr(szWild)))

\* The test of ForeachFile's loop body: "." and ".." are skipped.
Skip(ffd) ==
    /\ (ffd.cFileName \o <<NUL, NUL>>)[1] = DOT
    /\ \/ (ffd.cFileName \o <<NUL, NUL>>)[2] = NUL
       \/ /\ (ffd.cFileName \o <<NUL, NUL>>)[2] = DOT
          /\ (ffd.cFileName \o <<NUL, NUL>>)[3] = NUL

\* A variant of DataFileName that sets szDataFile[0] instead of szDataFile[1].
DataFileNameFirstChar(cFileName) ==
    [k \in 1..Min(Len(cFileName), MAX_PATH - 1) |-> IF k = 1 THEN CH_R ELSE cFileName[k]]

\* StringCchCopy(szDataFile, MAX_PATH, cFileName); szDataFile[1] = L'R'
DataFileName(cFileName) ==
    [k \in 1..Min(Len(cFileName), MAX_PATH - 1) |-> IF k = 2 THEN CH_R ELSE cFileName[k]]

\* A variant of PrintFileAttributes whose "Missing" is followed by one comma
\* instead of five.
PrintFileAttributesOneComma(lb, szFileName, attr) ==
    IF ~attr.found
    THEN [lb |-> PrintF(lb, szMissing \o <<COMMA>>), isFolder |-> FALSE]
    ELSE [lb |-> PrintF(PrintFileDetails(lb, szFileName, attr.ftCreationTime,
                                         attr.ftLastWriteTime, attr.ftLastAccessTime),
                        Dec(attr.size) \o <<COMMA>>),
          isFolder |-> attr.dir]

\* PrintFileAttributes on what GetFileAttributesEx reported for szFileName.
PrintFileAttributes(lb, szFileName, attr) ==
    IF ~attr.found
    THEN [lb |-> PrintF(lb, szMissing \o <<COMMA, COMMA, COMMA, COMMA, COMMA>>),
          isFolder |-> FALSE]
    ELSE [lb |-> PrintF(PrintFileDetails(lb, szFileName, attr.ftCreationTime,
                                         attr.ftLastWriteTime, attr.ftLastAccessTime),
                        Dec(attr.size) \o <<COMMA>>),
          isFolder |-> attr.dir]

\* PrintFolder(szFolder, lineBuffer), when it is called at all.
PrintFolder(calls, lb, store, dir) ==
    IF calls = <<>> THEN [alive |-> TRUE, frames |-> <<>>]
    ELSE ForeachFile(calls[1], szAllWild, "PrintFileOrFolder", lb, store, dir)

\* PrintRecycledFileInfo from PrintLine on (lines 217-224), "r" being what
\* PrintFileAttributes gave and "pos" the cursor before it.
\*   lb     the row buffer when the handler returns or calls PrintFolder
\*   lines  the lines PrintLine printed (none once the process has ended)
\*   calls  the folder PrintFolder is called with, if any
PrintRecycledFileInfoLine(pos, r, szDataFile) ==
    [lb |-> IF r.isFolder THEN SetPosition(r.lb, pos) ELSE r.lb,
     lines |-> IF r.lb.alive THEN <<PrintLine(r.lb)>> ELSE <<>>,
     calls |-> IF r.isFolder /\ r.lb.alive THEN <<szDataFile>> ELSE <<>>]

\* PrintRecycledFileInfo from the data file's name on (lines 207-224), "lb"
\* holding what PrintRecycleInfo and PrintFileDetails wrote.
PrintRecycledFileInfoData(lb, szDataFile, store, dir) ==
    PrintRecycledFileInfoLine(GetPosition(lb),
        PrintFileAttributes(lb, szDataFile, GetFileAttributesEx(store, dir, szDataFile)),
        szDataFile)

\* PrintRecycledFileInfo, called with the cursor where ForeachFile set it.
PrintRecycledFileInfo(lb, pffd, store, dir) ==
    IF pffd.dir THEN [lb |-> lb, lines |-> <<>>, calls |-> <<>>]
    ELSE PrintRecycledFileInfoData(
             PrintFileDetails(PrintRecycleInfo(lb, Lookup(store, dir, pffd.cFileName)),
                              pffd.cFileName, pffd.ftCreationTime,
                              pffd.ftLastWriteTime, pffd.ftLastAccessTime),
             DataFileName(pffd.cFileName), store, dir)

\* The store PrintRecycledFileInfo leaves: PrintRecycleInfo opens the index
\* file; GetFileAttributesEx and PrintFolder's listing only read.
PrintRecycledFileInfoStore(store, dir, pffd) ==
    IF pffd.dir THEN store ELSE PrintRecycleInfoStore(store, dir, pffd.cFileName)

\* What reading fileName->buffer after "delete fileName; fileName = NULL" can do
\* (line 353, undefined behaviour): the read of address 0 faults and ends the
\* process; or the read is served from the freed CharBuffer, whose text is
\* still there ("intact") or has been overwritten ("garbage").
NullReadOutcomes == {"fault", "intact", "garbage"}

\* A text that names no entry.
szGarbage == <<63>>

\* PrintFileOrFolder from PrintLine on (lines 348-354), "l2" holding the row,
\* "fileName" the CharBuffer the path was built in.
\*   fault  the read of fileName->buffer ended the process
PrintFileOrFolderLine(initialPosition, fileName, l2, isDir, outcome) ==
    [lb |-> IF isDir /\ l2.alive THEN SetPosition(l2, initialPosition) ELSE l2,
     lines |-> IF l2.alive THEN <<PrintLine(l2)>> ELSE <<>>,
     path |-> fileName.buffer,
     fault |-> isDir /\ l2.alive /\ outcome = "fault",
     calls |-> IF isDir /\ l2.alive /\ outcome # "fault"
               THEN << IF outcome = "intact" THEN fileName.buffer ELSE szGarbage >>
               ELSE <<>>]

\* PrintFileOrFolder once the path is built (lines 341-354).
PrintFileOrFolderRow(lb, fileName, pffd, outcome) ==
    PrintFileOrFolderLine(GetPosition(lb), fileName,
        PrintF(PrintFileDetails([lb EXCEPT !.alive = lb.alive /\ fileName.alive],
                                fileName.buffer, pffd.ftCreationTime,
                                pffd.ftLastWriteTime, pffd.ftLastAccessTime),
               Dec(pffd.size) \o <<COMMA>>),
        pffd.dir, outcome)

\* PrintFileOrFolder, called with the cursor where ForeachFile set it.
PrintFileOrFolder(lb, szRoot, pffd, outcome) ==
    PrintFileOrFolderRow(lb,
        PrintF(NewCharBuffer(MAX_PATH), CStr(szRoot) \o <<BSLASH>> \o CStr(pffd.cFileName)),
        pffd, outcome)

(* ------------------------------------------------------------------ *)
(* The recycle bins the runs are checked on                            *)
(* ------------------------------------------------------------------ *)

\* Largest number of root arguments of a run (argc - 1).
MaxArgs == 2

\* The n little-endian bytes of v.
RECURSIVE Bytes(_, _)
Bytes(v, n) == IF n = 0 THEN <<>> ELSE <<v % 256>> \o Bytes(v \div 256, n - 1)

\* The bytes of a sequence of wchar_t units.
UnitBytes(units) ==
    [k \in 1..(WCharBytes * Len(units)) |->
        IF k % 2 = 1 THEN units[(k + 1) \div 2] % 256 ELSE units[k \div 2] \div 256]

\* A version 2 index file: version, size, deletedTime, fileNameLen, fileName[].
V2File(size, time, nameLen, units) ==
    Bytes(2, 8) \o Bytes(size, 8) \o Bytes(time, 8) \o Bytes(nameLen, 4) \o UnitBytes(units)

\* A version 1 index file: version, size, deletedTime, fileName[260].
V1File(size, time, units) ==
    Bytes(1, 8) \o Bytes(size, 8) \o Bytes(time, 8)
    \o UnitBytes(units \o [k \in 1..(V1NameUnits - Len(units)) |-> NUL])

\* A version 2 index file whose fileNameLen is the largest uint32_t, 2^32 - 1.
V2LargestLen(size, time, units) ==
    Bytes(2, 8) \o Bytes(size, 8) \o Bytes(time, 8) \o <<255, 255, 255, 255>>
    \o UnitBytes(units)

\* The first n bytes of a file.
Cut(bytes, n) == SubSeq(bytes, 1, n)

\* "$I<k>" and "$R<k>"
IName(k) == <<DOLLAR, CH_I, ZERO + k>>
RName(k) == <<DOLLAR, CH_R, ZERO + k>>

\* An index file, a data file, a data folder.
IndexFile(k, bytes) == Entry(IName(k), FALSE, Len(bytes), 10 + k, 20 + k, 30 + k, <<>>, bytes, TRUE)
PlainFile(name, size) == Entry(name, FALSE, size, 40, 50, 60, <<>>, <<>>, TRUE)
Folder(name, kids) == Entry(name, TRUE, 0, 70, 80, 90, kids, <<>>, FALSE)

\* "C:\a" with its terminator, "a" NUL "b", and paths of n letters.
szPathA == <<67, 58, BSLASH, 97, NUL>>
szEmbedded == <<97, NUL, 98>>
LongPath(n) == [k \in 1..n |-> 97]

\* Path lengths: one whose row leaves the cursor near the end of the row
\* buffer, and one that does not fit the row buffer.
NearFullPath == 1830
OverfullPath == 2040

\* The directories of the store, by the name a root argument gives them.
\*   binA   a deleted file, and a version 1 record whose data entry is gone
\*   binB   a deleted folder F = $R3 holding subfolder S (holding x) and file y
\*   binC   an index file cut inside its name, then a sound one
\*   binD   fileNameLen = 0 paired with a folder; a directory named like an
\*          index file; an index file that cannot be opened; a name with a NUL
\*   binT   index files cut inside each header field
\*   binE   a long original path whose data entry is gone
\*   binF   an original path longer than the row buffer, paired with a file
\*   binV   version 1 records: a name that fills its 260 characters with no
\*          NUL, and a record cut inside its name
\*   binW   fileNameLen = 2^32 - 1 followed by two characters, then a sound
\*          index file
\*   start  the directory the process starts in
Store ==
    [binA |-> << IndexFile(1, V2File(100, 3661, 5, szPathA)), PlainFile(RName(1), 100),
                 IndexFile(2, V1File(7, 59, <<67, 58, BSLASH, 98>>)) >>,
     binB |-> << IndexFile(3, V2File(257, 86400, 5, szPathA)),
                 Folder(RName(3), << Folder(<<83>>, << PlainFile(<<120>>, 7) >>),
                                     PlainFile(<<121>>, 250) >>) >>,
     binC |-> << IndexFile(4, Cut(V2File(5, 1, 5, szPathA), 30)), PlainFile(RName(4), 5),
                 IndexFile(5, V2File(9, 2, 5, szPathA)) >>,
     binD |-> << IndexFile(6, V2File(100, 3, 0, <<>>)),
                 Folder(RName(6), << PlainFile(<<122>>, 100) >>),
                 Folder(IName(7), <<>>),
                 [IndexFile(8, V2File(1, 4, 5, szPathA)) EXCEPT !.openable = FALSE],
                 PlainFile(RName(8), 1),
                 IndexFile(9, V2File(2, 5, 3, szEmbedded)), PlainFile(RName(9), 2) >>,
     binT |-> << IndexFile(1, Cut(V2File(1, 1, 5, szPathA), 4)),
                 IndexFile(2, Cut(V2File(1, 1, 5, szPathA), 12)),
                 IndexFile(3, Cut(V2File(1, 1, 5, szPathA), 20)),
                 IndexFile(4, Cut(V2File(1, 1, 5, szPathA), 26)),
                 PlainFile(RName(4), 1) >>,
     binE |-> << IndexFile(1, V2File(64, 6, NearFullPath, LongPath(NearFullPath))) >>,
     binF |-> << IndexFile(1, V2File(64, 6, OverfullPath, LongPath(OverfullPath))),
                 PlainFile(RName(1), 64) >>,
     binV |-> << IndexFile(1, V1File(8, 9, LongPath(V1NameUnits))),
                 IndexFile(2, Cut(V1File(8, 9, LongPath(V1NameUnits)), 24 + WCharBytes * 100)),
                 PlainFile(RName(2), 8) >>,
     binW |-> << IndexFile(1, V2LargestLen(3, 4, <<97, 98>>)), PlainFile(RName(1), 3),
                 IndexFile(2, V2File(4, 5, 5, szPathA)) >>,
     start |-> << IndexFile(1, V2File(3, 7, 5, szPathA)) >>]

\* What a root argument can be: a directory of the store, or no directory.
Args == (DOMAIN Store \ {"start"}) \cup {"nodir"}

\* The sequences of at most n elements of S.
RECURSIVE SeqsUpTo(_, _)
SeqsUpTo(S, n) ==
    IF n = 0 THEN {<<>>}
    ELSE LET shorter == SeqsUpTo(S, n - 1)
         IN  shorter \cup {Append(q, a) : q \in {r \in shorter : Len(r) = n - 1}, a \in S}

(* ------------------------------------------------------------------ *)
(* The program                                                         *)
(* ------------------------------------------------------------------ *)

VARIABLES
    fs,          \* the directories on disk
    argv,        \* argv[1..argc-1]
    cwd,         \* the current directory of the process
    i,           \* wmain's loop index: the next argument
    lineBuffer,  \* wmain's CharBuffer
    stack,       \* the ForeachFile activations, innermost last
    handles,     \* the FindFirstFile handles not yet closed
    out,         \* the lines printed on stdout, each with the call that printed it
    visited,     \* the index files handed to PrintRecycledFileInfo so far, each
                 \* with the argument it was found under
    status       \* "running", "done", "overflow" (a CharBuffer write ended the
                 \* process) or "fault" (the read of address 0 did)

vars == <<fs, argv, cwd, i, lineBuffer, stack, handles, out, visited, status>>

Init ==
    /\ fs = Store
    /\ argv \in SeqsUpTo(Args, MaxArgs)
    /\ cwd = "start"
    /\ i = 1
    /\ lineBuffer = NewCharBuffer(LineBufferSize)
    /\ stack = <<>>
    /\ handles = 0
    /\ out = <<>>
    /\ visited = <<>>
    /\ status = "running"

Top == stack[Len(stack)]

\* The stack with the entry just handled removed from the innermost listing.
Advanced == [stack EXCEPT ![Len(stack)].rest = Tail(@)]

\* SetCurrentDirectory(argv[i]) fails, and changes nothing, when the argument
\* names no directory.
SetCurrentDirectory(dir, arg) == IF arg \in DOMAIN fs THEN arg ELSE dir

\* A line of stdout with the call that printed it: the argument being
\* processed, the index file being handled, the data entry of the row, and
\* the cursor ForeachFile set before the handler ran.
Line(kind, text, arg, idx, entry, from) ==
    [kind |-> kind, text |-> text, arg |-> arg, index |-> idx, entry |-> entry,
     from |-> from]

\* The step of a caller of ForeachFile: "lb" is the row buffer it leaves,
\* "lines" what it printed, "rest" the activations that stay, "call" what
\* ForeachFile did up to its loop, "fault" whether the caller faulted.
Step(lb, lines, rest, call, fault) ==
    /\ lineBuffer' = lb
    /\ out' = out \o lines
    /\ stack' = rest \o call.frames
    /\ handles' = handles + Len(call.frames)
    /\ status' = IF ~(lb.alive /\ call.alive) THEN "overflow"
                 ELSE IF fault THEN "fault" ELSE "running"

\* wmain's loop body: the header, the change of directory, and ForeachFile up
\* to its loop.
WmainIteration ==
    /\ status = "running"
    /\ stack = <<>>
    /\ i <= Len(argv)
    /\ cwd' = SetCurrentDirectory(cwd, argv[i])
    /\ Step(lineBuffer, << Line("header", header, i, <<>>, <<>>, 0) >>, <<>>,
            ForeachFile(szDot, szIndexWild, "PrintRecycledFileInfo", lineBuffer, fs,
                        SetCurrentDirectory(cwd, argv[i])),
            FALSE)
    /\ i' = i + 1
    /\ UNCHANGED <<fs, argv, visited>>

\* wmain after its loop: delete lineBuffer, return.
WmainReturn ==
    /\ status = "running"
    /\ stack = <<>>
    /\ i > Len(argv)
    /\ status' = "done"
    /\ UNCHANGED <<fs, argv, cwd, i, lineBuffer, stack, handles, out, visited>>

\* ForeachFile's loop on an entry it skips.
ForeachFileSkip ==
    /\ status = "running"
    /\ stack # <<>>
    /\ Top.rest # <<>>
    /\ Skip(Head(Top.rest))
    /\ stack' = Advanced
    /\ UNCHANGED <<fs, argv, cwd, i, lineBuffer, handles, out, visited, status>>

\* What a handler did: its lines tagged, and PrintFolder up to the loop.
Handled(kind, h, idx, entry, fault) ==
    Step(h.lb, [k \in 1..Len(h.lines) |->
                     Line(kind, h.lines[k], i - 1, idx, entry, Top.initialPosition)],
         Advanced, PrintFolder(h.calls, h.lb, fs, cwd), fault)

\* The step of PrintRecycledFileInfo, "h" being what it did; when the process
\* ended in PrintRecycleInfo nothing was written or printed.
HandledIndexEntry(h, fault) ==
    Handled("top",
            IF fault
            THEN [lb |-> SetPosition(lineBuffer, Top.initialPosition),
                  lines |-> <<>>, calls |-> <<>>]
            ELSE h,
            Head(Top.rest).cFileName, DataFileName(Head(Top.rest).cFileName), fault)

\* ForeachFile's loop on an index file: SetPosition(initialPosition), then the
\* whole of PrintRecycledFileInfo up to PrintFolder's ForeachFile loop.
HandleIndexEntry ==
    /\ status = "running"
    /\ stack # <<>>
    /\ Top.rest # <<>>
    /\ ~Skip(Head(Top.rest))
    /\ Top.fn = "PrintRecycledFileInfo"
    /\ \E outcome \in OverrunOutcomes :
         HandledIndexEntry(
             PrintRecycledFileInfo(SetPosition(lineBuffer, Top.initialPosition),
                                   Head(Top.rest), fs, cwd),
             /\ ~Head(Top.rest).dir
             /\ PrintRecycleInfoOverruns(Lookup(fs, cwd, Head(Top.rest).cFileName))
             /\ outcome = "fault")
    /\ visited' = Append(visited, [arg |-> i - 1, name |-> Head(Top.rest).cFileName])
    /\ fs' = PrintRecycledFileInfoStore(fs, cwd, Head(Top.rest))
    /\ UNCHANGED <<argv, cwd, i>>

\* The step of PrintFileOrFolder, "h" being what it did.
HandledFolderEntry(h) == Handled("desc", h, visited[Len(visited)].name, h.path, h.fault)

\* ForeachFile's loop on an entry of a deleted folder: SetPosition, then the
\* whole of PrintFileOrFolder up to PrintFolder's ForeachFile loop.
HandleFolderEntry ==
    /\ status = "running"
    /\ stack # <<>>
    /\ Top.rest # <<>>
    /\ ~Skip(Head(Top.rest))
    /\ Top.fn = "PrintFileOrFolder"
    /\ \E outcome \in NullReadOutcomes :
         HandledFolderEntry(PrintFileOrFolder(SetPosition(lineBuffer, Top.initialPosition),
                                              Top.szRoot, Head(Top.rest), outcome))
    /\ UNCHANGED <<fs, argv, cwd, i, visited>>

\* A variant of FindClose that leaves the handle open.
FindCloseNever(open) == open

\* FindClose(hFind): one listing handle fewer is open.
FindClose(open) == open - 1

\* ForeachFile after its loop: FindNextFile found nothing more, FindClose.
ForeachFileReturn ==
    /\ status = "running"
    /\ stack # <<>>
    /\ Top.rest = <<>>
    /\ stack' = SubSeq(stack, 1, Len(stack) - 1)
    /\ handles' = FindClose(handles)
    /\ UNCHANGED <<fs, argv, cwd, i, lineBuffer, out, visited, status>>

Next ==
    \/ WmainIteration
    \/ WmainReturn
    \/ ForeachFileSkip
    \/ HandleIndexEntry
    \/ HandleFolderEntry
    \/ ForeachFileReturn

Spec == Init /\ [][Next]_vars

(* ------------------------------------------------------------------ *)
(* What the claims speak of                                            *)
(* ------------------------------------------------------------------ *)

\* The lines of stdout that are rows.
Rows == {k \in 1..Len(out) : out[k].kind # "header"}

\* The current directory while argument a is processed.
RECURSIVE DirOf(_)
DirOf(a) == IF a = 0 THEN "start" ELSE SetCurrentDirectory(DirOf(a - 1), argv[a])

\* The index file a visit or a row is about, and its paired data entry by the
\* pairing rule: the same name with its second character replaced by 'R'.
IndexEntryOf(v) == Lookup(fs, DirOf(v.arg), v.name)
PairedName(name) == [name EXCEPT ![2] = CH_R]
PairedEntryOf(v) == Lookup(fs, DirOf(v.arg), PairedName(v.name))
VisitOf(r) == [arg |-> r.arg, name |-> r.index]

\* A visit of a file (not of a directory named like an index file).
IsIndexFile(v) == IndexEntryOf(v).found /\ ~IndexEntryOf(v).dir

\* The index file of a visit can be opened and holds a whole record.
Decodes(v) == IsIndexFile(v) /\ IndexEntryOf(v).openable /\ DecodeIndex(IndexEntryOf(v).bytes).read.ok

\* The rows printed for a visit.
RowsOf(v) == {k \in Rows : out[k].arg = v.arg /\ out[k].index = v.name}

\* The part of a row written for its own entry: the text after the cursor
\* ForeachFile set.
OwnText(r) == SubSeq(r.text, r.from + 1, Len(r.text))

\* The run ended while PrintRecycledFileInfo was writing the row of the n-th
\* visit: the row did not fit the row buffer.
OverflowedIn(n) == status = "overflow" /\ n = Len(visited) /\ RowsOf(visited[n]) = {}

\* The entries below a folder, in depth-first pre-order of the listings, each
\* by its path from the current directory.
RECURSIVE PreOrder(_, _)
PreOrder(path, kids) ==
    IF kids = <<>> THEN <<>>
    ELSE <<path \o <<BSLASH>> \o Head(kids).cFileName>>
         \o PreOrder(path \o <<BSLASH>> \o Head(kids).cFileName, Head(kids).kids)
         \o PreOrder(path, Tail(kids))

\* The data entries of the descendant rows of a visit, in the order printed.
DescendantsPrinted(v) ==
    LET IsDesc(r) == r.kind = "desc" /\ r.arg = v.arg /\ r.index = v.name
        sel == SelectSeq(out, IsDesc)
    IN  [k \in 1..Len(sel) |-> sel[k].entry]

Range(q) == {q[k] : k \in 1..Len(q)}

\* The run has ended otherwise than by a row buffer overflow.
Ended == status \in {"done", "fault"}

(* ------------------------------------------------------------------ *)
(* The claims                                                          *)
(* ------------------------------------------------------------------ *)

\* C1: when a run has ended, every deleted item whose paired data entry is a
\* folder has exactly one descendant row for every entry nested at any depth
\* below the folder: none is missing, none is printed twice.
C1_EveryNestedEntryOnce ==
    Ended =>
        \A n \in 1..Len(visited) :
            (IsIndexFile(visited[n]) /\ PairedEntryOf(visited[n]).dir) =>
                LET printed == DescendantsPrinted(visited[n])
                    nested == PreOrder(PairedName(visited[n].name), PairedEntryOf(visited[n]).kids)
                IN  /\ Len(printed) = Len(nested)
                    /\ Range(printed) = Range(nested)
                    /\ Cardinality(Range(printed)) = Len(printed)

\* C2: the first 7 fields of a deleted folder's own row and of every row
\* printed for a descendant of that folder are identical.
C2_SharedProvenance ==
    \A j \in Rows : \A k \in Rows :
        (/\ out[j].kind = "top"
         /\ out[k].kind = "desc"
         /\ VisitOf(out[j]) = VisitOf(out[k]))
        => FirstFields(out[k].text, 7) = FirstFields(out[j].text, 7)

\* C3: an index file that cannot be opened, is truncated, or holds
\* fileNameLen = 0 gets no row at all.
C3_NoRowOnDecodeFailure ==
    \A k \in Rows : Decodes(VisitOf(out[k]))

\* C4: every row printed has exactly 12 comma-terminated fields, as the header
\* has.
C4_TwelveFields ==
    /\ CountCommas(header) = HeaderColumns
    /\ \A k \in Rows : CountCommas(out[k].text) = HeaderColumns

\* C5: when a run has ended, the row of a deleted folder is followed at once by
\* the rows of all the entries nested below it, in depth-first pre-order of the
\* listings (F, S, x, y for F holding S, which holds x, and y).
C5_PreOrderRows ==
    Ended =>
        \A k \in Rows :
            (out[k].kind = "top" /\ PairedEntryOf(VisitOf(out[k])).dir) =>
                LET nested == PreOrder(PairedName(out[k].index), PairedEntryOf(VisitOf(out[k])).kids)
                IN  /\ k + Len(nested) <= Len(out)
                    /\ \A m \in 1..Len(nested) :
                          /\ out[k + m].kind = "desc"
                          /\ out[k + m].entry = nested[m]

\* The n-th visit is of an index file that decodes and whose data entry is gone.
DataMissing(n) == Decodes(visited[n]) /\ ~PairedEntryOf(visited[n]).found

\* C6 as stated: an index file that decodes and whose data entry is missing
\* gets exactly one row, with its 7 provenance fields populated and all 5
\* data columns empty, and no descendant row.
C6_AllDataColumnsEmpty ==
    \A n \in 1..Len(visited) :
        DataMissing(n) =>
            /\ Cardinality(RowsOf(visited[n])) = 1
            /\ \A k \in RowsOf(visited[n]) :
                  /\ out[k].kind = "top"
                  /\ \A c \in 1..7 : Field(out[k].text, c) # <<>>
                  /\ \A c \in 8..12 : Field(out[k].text, c) = <<>>

\* C6 as amended: such an index file gets exactly one row and no descendant
\* row, unless the row does not fit the row buffer and the run ends; what is
\* written for the entry is 12 fields: the 7 provenance fields populated (the
\* 4th being the index file's name), then "Missing", then 4 empty fields.
C6_MissingSentinelRow ==
    \A n \in 1..Len(visited) :
        DataMissing(n) =>
            \/ OverflowedIn(n)
            \/ /\ Cardinality(RowsOf(visited[n])) = 1
               /\ \A k \in RowsOf(visited[n]) :
                     /\ out[k].kind = "top"
                     /\ CountCommas(OwnText(out[k])) = 12
                     /\ \A c \in 1..7 : Field(OwnText(out[k]), c) # <<>>
                     /\ Field(OwnText(out[k]), 4) = visited[n].name
                     /\ Field(OwnText(out[k]), 8) = szMissing
                     /\ \A c \in 9..12 : Field(OwnText(out[k]), c) = <<>>

\* C6's case: a row was printed for an index file whose data entry is gone.
C6_Witness ==
    \E n \in 1..Len(visited) : DataMissing(n) /\ RowsOf(visited[n]) # {}

\* The bytes are a version 2 record with fileNameLen = N > 0 followed by at
\* least N character units; and those N units.
IsWholeV2(bytes) ==
    /\ Len(bytes) >= 28
    /\ LE(SubSeq(bytes, 1, 8)) = 2
    /\ U32OfBytes(SubSeq(bytes, 25, 28)) # U32(0)
    /\ U32LessEq(U32OfBytes(SubSeq(bytes, 25, 28)), U32((Len(bytes) - 28) \div WCharBytes))
NameUnitsV2(bytes) ==
    Units(SubSeq(bytes, 29, 28 + WCharBytes * U32Value(U32OfBytes(SubSeq(bytes, 25, 28)))))

\* The row is the own row of an index file that can be opened and holds a
\* whole version 2 record.
IsV2Row(r) ==
    /\ r.kind = "top"
    /\ IndexEntryOf(VisitOf(r)).openable
    /\ IsWholeV2(IndexEntryOf(VisitOf(r)).bytes)

\* C7 as stated: the original path reported for a version 2 record is exactly
\* its N character units, NULs among them included.
C7_ExactlyNUnits ==
    \A k \in Rows :
        IsV2Row(out[k]) =>
            Field(OwnText(out[k]), 1) = NameUnitsV2(IndexEntryOf(VisitOf(out[k])).bytes)

\* C7 as amended: the original path reported for a version 2 record is its N
\* character units up to, and without, the first NUL among them (all N when
\* they hold none).
C7_UpToFirstNul ==
    \A k \in Rows :
        IsV2Row(out[k]) =>
            Field(OwnText(out[k]), 1) = CStr(NameUnitsV2(IndexEntryOf(VisitOf(out[k])).bytes))

\* C7's case: a row was printed for a version 2 record whose name holds a NUL
\* before its last unit.
C7_Witness ==
    \E k \in Rows :
        /\ IsV2Row(out[k])
        /\ FirstNul(NameUnitsV2(IndexEntryOf(VisitOf(out[k])).bytes))
             < Len(NameUnitsV2(IndexEntryOf(VisitOf(out[k])).bytes))

\* The index files of the directory listed for argument a.
IndexFilesOf(a) ==
    {e.cFileName : e \in {x \in Range(fs[DirOf(a)]) :
                              ~x.dir /\ WildMatch(x.cFileName, szIndexWild)}}

\* C8: a decode failure never ends the enumeration nor changes it for the
\* other index files: the run does not end in the handler of an index file
\* that fails to decode while another index file of the listing, whose row
\* fits, is still to come; and a run that ends normally has visited every
\* index file of every argument's directory.
C8_DecodeFailureIsLocal ==
    /\ \A n \in 1..Len(visited) :
          (IsIndexFile(visited[n]) /\ ~Decodes(visited[n]) /\ OverflowedIn(n)) =>
              \A m \in 1..Len(stack[1].rest) :
                  ~PrintRecycledFileInfo(
                       [lineBuffer EXCEPT !.alive = TRUE, !.position = stack[1].initialPosition],
                       stack[1].rest[m], fs, cwd).lb.alive
    /\ status = "done" =>
          \A a \in 1..Len(argv) :
              \A name \in IndexFilesOf(a) : [arg |-> a, name |-> name] \in Range(visited)

\* The n-th visit is of an index file that decodes and whose data entry is a file.
DataIsFile(n) ==
    /\ Decodes(visited[n])
    /\ PairedEntryOf(visited[n]).found
    /\ ~PairedEntryOf(visited[n]).dir

\* The one row of the n-th visit: the data entry it names is the paired entry
\* and its last field is that entry's size.
IsFileRow(n) ==
    /\ Cardinality(RowsOf(visited[n])) = 1
    /\ \A k \in RowsOf(visited[n]) :
          /\ out[k].kind = "top"
          /\ out[k].entry = PairedName(visited[n].name)
          /\ Field(OwnText(out[k]), 8) = PairedName(visited[n].name)
          /\ Field(OwnText(out[k]), 12) = Dec(PairedEntryOf(visited[n]).size)

\* C9 as stated: an index file that decodes and whose data entry is a file
\* gets exactly one row and no descendant row; the row names the paired entry
\* and its data size is that entry's size.
C9_OneRowPerFile ==
    \A n \in 1..Len(visited) : DataIsFile(n) => IsFileRow(n)

\* C9 as amended: the same, unless the row does not fit the row buffer: the
\* run then ends and the index file has no row.
C9_OneRowPerFileThatFits ==
    \A n \in 1..Len(visited) : DataIsFile(n) => (OverflowedIn(n) \/ IsFileRow(n))

\* C9's case: a row was printed for an index file whose data entry is a file.
C9_Witness ==
    \E n \in 1..Len(visited) : DataIsFile(n) /\ RowsOf(visited[n]) # {}

\* C10: the cursor of the row buffer stays within its capacity; a write that
\* does not fit ends the run; no row is as long as the buffer, and every row
\* printed is whole (it ends with the comma of its last field).
C10_CursorWithinCapacity ==
    /\ lineBuffer.position \in 0..LineBufferSize
    /\ lineBuffer.size = LineBufferSize
    /\ Len(lineBuffer.buffer) < LineBufferSize
    /\ ~lineBuffer.alive => status = "overflow"
    /\ \A k \in Rows :
          /\ Len(out[k].text) < LineBufferSize
          /\ out[k].text[Len(out[k].text)] = COMMA

\* C10's case: a row that does not fit the row buffer was being written, and
\* the run ended.
C10_Witness ==
    /\ ~lineBuffer.alive
    /\ status = "overflow"
    /\ lineBuffer.position > LineBufferSize - MAX_PATH

\* C11: no step of a run (decoding, attribute query, listing, recursion)
\* creates, deletes, renames or writes an entry of the recycle store: every
\* step leaves the set of entries and their contents as they were.
C11_StoreUnchanged == [][fs' = fs]_vars

\* C11's case: a run has ended after index files were decoded, data entries
\* queried and a deleted folder listed, and the store is as it was.
C11_Witness ==
    /\ status = "done"
    /\ fs = Store
    /\ \E n \in 1..Len(visited) : Decodes(visited[n])
    /\ \E k \in Rows : out[k].kind = "desc"

\* C12: every top-level row starts at cursor position 0, whatever the number of
\* root arguments: its text holds nothing a row printed before it left in the
\* row buffer.
C12_TopRowsStartAtZero ==
    \A k \in Rows :
        out[k].kind = "top" => (out[k].from = 0 /\ OwnText(out[k]) = out[k].text)

\* What PrintRecycleInfo writes for an index file into an empty row buffer.
DecodedText(e) == PrintRecycleInfo(NewCharBuffer(LineBufferSize), e)

\* The three decoded fields of a record that was read whole: the original
\* path, the deleted time and the deleted size, each with its comma.
ThreeFields(d) ==
    CStr(d.read.name) \o <<COMMA>> \o FormatTime(FileTimeToSystemTime(d.timeStamp))
    \o <<COMMA>> \o Dec(d.fileSize) \o <<COMMA>>

\* Decoding wrote all three fields, or none, or ended the run.
AllOrNone(e) ==
    \/ ~DecodedText(e).alive
    \/ /\ e.openable
       /\ DecodeIndex(e.bytes).read.ok
       /\ DecodedText(e).buffer = ThreeFields(DecodeIndex(e.bytes))
       /\ CountCommas(DecodedText(e).buffer) = 3
    \/ /\ ~(e.openable /\ DecodeIndex(e.bytes).read.ok)
       /\ DecodedText(e).buffer = <<>>

\* The fields a top-level row holds before the index file's own name: three
\* when the record decoded, none when it did not.
DecodedFieldsOfRow(r) ==
    CountCommas(SubSeq(OwnText(r), 1,
        CHOOSE p \in 0..Len(OwnText(r)) :
            /\ SubSeq(OwnText(r), p + 1, p + Len(r.index) + 1) = r.index \o <<COMMA>>
            /\ \A q \in 0..(p - 1) :
                  SubSeq(OwnText(r), q + 1, q + Len(r.index) + 1) # r.index \o <<COMMA>>))

\* C13: decoding is all-or-nothing for the original path, the deleted time and
\* the deleted size: for every index file handled (shorter than its 24-byte
\* header, with a short fileNameLen, with a name shorter than declared, with
\* fileNameLen = 0, or whole), all three fields are written to the row or none
\* is, and the row printed holds three or no fields before the index file's
\* name accordingly.
C13_AllOrNothing ==
    /\ \A n \in 1..Len(visited) :
          IsIndexFile(visited[n]) => AllOrNone(IndexEntryOf(visited[n]))
    /\ \A k \in Rows :
          out[k].kind = "top" =>
              DecodedFieldsOfRow(out[k]) = IF Decodes(VisitOf(out[k])) THEN 3 ELSE 0

\* C13's case: rows were printed for an index file shorter than its 24-byte
\* header and for one whose name is shorter than declared.
C13_Witness ==
    /\ \E k \in Rows :
          /\ out[k].kind = "top"
          /\ Len(IndexEntryOf(VisitOf(out[k])).bytes) < 24
    /\ \E k \in Rows :
          /\ out[k].kind = "top"
          /\ Len(IndexEntryOf(VisitOf(out[k])).bytes) > 28
          /\ ~Decodes(VisitOf(out[k]))

\* The bytes are a version 1 record read as far as its name; the record
\* carries all of its 260-character name; the characters of that name.
IsV1(bytes) == Len(bytes) >= 24 /\ LE(SubSeq(bytes, 1, 8)) = 1
HasFullV1Name(bytes) == Len(bytes) >= 24 + WCharBytes * V1NameUnits
NameUnitsV1(bytes) == Units(SubSeq(bytes, 25, 24 + WCharBytes * V1NameUnits))

\* The row is the own row of an index file that can be opened and holds a
\* version 1 record.
IsV1Row(r) ==
    /\ r.kind = "top"
    /\ IndexEntryOf(VisitOf(r)).openable
    /\ IsV1(IndexEntryOf(VisitOf(r)).bytes)

\* C14: the original path reported for a version 1 record that carries its
\* whole 260-character name is that name up to, and without, its first NUL
\* (all 260 characters when it holds none); a version 1 record with fewer
\* than 260 characters fails to decode: none of its fields is written.
C14_V1PathUpToFirstNul ==
    \A k \in Rows :
        IsV1Row(out[k]) =>
            IF HasFullV1Name(IndexEntryOf(VisitOf(out[k])).bytes)
            THEN /\ DecodedFieldsOfRow(out[k]) = 3
                 /\ Field(OwnText(out[k]), 1)
                      = CStr(NameUnitsV1(IndexEntryOf(VisitOf(out[k])).bytes))
            ELSE /\ DecodedFieldsOfRow(out[k]) = 0
                 /\ ~Decodes(VisitOf(out[k]))

\* C14's case: rows were printed for a version 1 record whose 260 characters
\* hold no NUL, all 260 reported, for one whose name ends at a NUL, and for
\* one cut inside its name.
C14_Witness ==
    /\ \E k \in Rows :
          /\ IsV1Row(out[k])
          /\ HasFullV1Name(IndexEntryOf(VisitOf(out[k])).bytes)
          /\ Len(Field(OwnText(out[k]), 1)) = V1NameUnits
    /\ \E k \in Rows :
          /\ IsV1Row(out[k])
          /\ HasFullV1Name(IndexEntryOf(VisitOf(out[k])).bytes)
          /\ Len(Field(OwnText(out[k]), 1)) \in 1..(V1NameUnits - 1)
    /\ \E k \in Rows :
          /\ IsV1Row(out[k])
          /\ ~HasFullV1Name(IndexEntryOf(VisitOf(out[k])).bytes)

\* C15: every listing handle ForeachFile opens is closed before that call
\* returns: the number of open listing handles is the depth of the listings in
\* progress, and none is open when the enumeration of a root has ended,
\* whether or not every entry produced a row.
C15_HandlesMatchDepth ==
    /\ handles = Len(stack)
    /\ stack = <<>> => handles = 0
    /\ status = "done" => handles = 0

\* C15's case: the enumeration of a root has ended with no listing in
\* progress, after a deleted folder was listed and an entry produced no row.
C15_Witness ==
    /\ status = "running"
    /\ stack = <<>>
    /\ handles = 0
    /\ i > 1
    /\ \E k \in Rows : out[k].kind = "desc"
    /\ \E n \in 1..Len(visited) : RowsOf(visited[n]) = {}

\* C16: the rows printed after the header of a root argument are of index
\* files of that argument's directory only; an argument whose directory
\* cannot be entered gets no row.
C16_RowsOfOwnDirectory ==
    \A k \in Rows :
        /\ argv[out[k].arg] \in DOMAIN fs
        /\ Lookup(fs, argv[out[k].arg], out[k].index).found

\* The version 2 index files whose fileNameLen was read and is not 0: those
\* the decoder allocates a name for.
AllocatesV2(v) ==
    /\ IsIndexFile(v)
    /\ IndexEntryOf(v).openable
    /\ Len(IndexEntryOf(v).bytes) >= 28
    /\ LE(SubSeq(IndexEntryOf(v).bytes, 1, 8)) # 1
    /\ U32OfBytes(SubSeq(IndexEntryOf(v).bytes, 25, 28)) # U32(0)

\* C17: for every fileNameLen read from a version 2 index file, the array the
\* decoder allocates holds at least fileNameLen + 1 characters (fileNameLen + 1
\* does not wrap modulo 2^32), and the characters read into it and the
\* terminator stay inside it.
C17_NameBufferHoldsLenPlusOne ==
    \A n \in 1..Len(visited) :
        AllocatesV2(visited[n]) =>
            /\ DecodeIndex(IndexEntryOf(visited[n]).bytes).read.new
            /\ U32Less(U32OfBytes(SubSeq(IndexEntryOf(visited[n]).bytes, 25, 28)),
                       DecodeIndex(IndexEntryOf(visited[n]).bytes).read.units)
            /\ U32LessEq(U32(DecodeIndex(IndexEntryOf(visited[n]).bytes).read.written),
                         DecodeIndex(IndexEntryOf(visited[n]).bytes).read.units)

====
